---- MODULE Spec2Model ----
(***************************************************************************)
(* Model of src/app.py: the resolver get_video_metadata with its two       *)
(* providers (get_nico_metadata_api and yt-dlp's extract_info), format_date *)
(* and the pipeline process_data (row loop, cache, fallback, aggregation).  *)
(*                                                                         *)
(* Python values.  A str is a sequence of one-character strings, so that   *)
(* the code's regular expression, strip, startswith, len and the ordering  *)
(* of sort can be computed.  The module is ASCII: a character outside it  *)
(* is written by its code point, and the Japanese literals of the source   *)
(* are written as one symbol each, with the source text in the comment     *)
(* beside it.  None and NaN are two marker values that no str      *)
(* equals.  A dict with optional keys is a function whose DOMAIN is the    *)
(* set of keys present.                                                    *)
(***************************************************************************)
EXTENDS Integers, Sequences, FiniteSets, TLC

VARIABLES
    df,                 \* the DataFrame handed to process_data: [ncols, rows]
    pc,                 \* position in process_data / get_video_metadata
    i,                  \* index label of the row being processed (RangeIndex)
    respondent,         \* respondent of the row being processed
    urls_to_process,    \* URLs of the row still to handle (line 134/136)
    all_votes,          \* list of vote dicts (line 105)
    video_meta_cache,   \* dict url -> result of get_video_metadata (line 106)
    respondent_counts,  \* insertion-ordered dict respondent -> count (line 107)
    ranking,            \* the ranking returned at line 186 (<<>> before that)
    invalid_respondents,\* the list returned alongside (line 172 / 114 / 168)
    resolver_calls,     \* history: argument of every get_video_metadata call
    provider_calls,     \* history: provider calls of the last resolution
    extracted,          \* history: what extract_info did in the last resolution
    handled,            \* history: the URLs handled so far, [row, pos, url] each
    vote_src,           \* history: for each vote, its entry of handled and item
    url,                \* argument of get_video_metadata (resolver specification)
    results             \* value returned by get_video_metadata (resolver specification)

vars == <<df, pc, i, respondent, urls_to_process, all_votes, video_meta_cache,
          respondent_counts, ranking, invalid_respondents, resolver_calls,
          provider_calls, extracted, handled, vote_src, url, results>>

(***************************************************************************)
(* Python values                                                           *)
(***************************************************************************)
None == <<"None">>
NaN == <<"NaN">>
EmptyDict == [k \in {} |-> None]

\* The ASCII characters in code point order, U+0000 first.  A character
\* that cannot stand in a string of this module is written by its code
\* point: "<U+0009>" is the tab.  Every character that is not one of these
\* takes more than one byte in UTF-8.
Ascii ==
    <<"<U+0000>", "<U+0001>", "<U+0002>", "<U+0003>", "<U+0004>", "<U+0005>",
      "<U+0006>", "<U+0007>", "<U+0008>", "<U+0009>", "<U+000A>", "<U+000B>",
      "<U+000C>", "<U+000D>", "<U+000E>", "<U+000F>", "<U+0010>", "<U+0011>",
      "<U+0012>", "<U+0013>", "<U+0014>", "<U+0015>", "<U+0016>", "<U+0017>",
      "<U+0018>", "<U+0019>", "<U+001A>", "<U+001B>", "<U+001C>", "<U+001D>",
      "<U+001E>", "<U+001F>", " ", "!", "<U+0022>", "#", "$", "%", "&", "'",
      "(",
      ")", "*", "+", ",", "-", ".", "/", "0", "1", "2", "3", "4", "5", "6",
      "7", "8", "9", ":", ";", "<", "=", ">", "?", "@", "A", "B", "C", "D",
      "E", "F", "G", "H", "I", "J", "K", "L", "M", "N", "O", "P", "Q", "R",
      "S", "T", "U", "V", "W", "X", "Y", "Z", "[", "<U+005C>", "]", "^", "_",
      "<U+0060>",
      "a", "b", "c", "d", "e", "f", "g", "h", "i", "j", "k", "l", "m", "n",
      "o", "p", "q", "r", "s", "t", "u", "v", "w", "x", "y", "z", "{", "|",
      "}", "~", "<U+007F>">>

AsciiChars == {Ascii[k] : k \in 1..Len(Ascii)}

IsAscii(c) == c \in AsciiChars

\* The decimal digits of Unicode 14.0 (category Nd, what \d of a str pattern
\* and int() accept): runs of ten, each with the code point of its zero
DecimalRuns ==
    <<[zero |-> 48,
       digits |-> <<"0", "1", "2", "3", "4", "5", "6", "7", "8", "9">>],
      [zero |-> 1632,
       digits |-> <<"<U+0660>", "<U+0661>", "<U+0662>", "<U+0663>", "<U+0664>",
                   "<U+0665>", "<U+0666>", "<U+0667>", "<U+0668>", "<U+0669>">>],
      [zero |-> 1776,
       digits |-> <<"<U+06F0>", "<U+06F1>", "<U+06F2>", "<U+06F3>", "<U+06F4>",
                   "<U+06F5>", "<U+06F6>", "<U+06F7>", "<U+06F8>", "<U+06F9>">>],
      [zero |-> 1984,
       digits |-> <<"<U+07C0>", "<U+07C1>", "<U+07C2>", "<U+07C3>", "<U+07C4>",
                   "<U+07C5>", "<U+07C6>", "<U+07C7>", "<U+07C8>", "<U+07C9>">>],
      [zero |-> 2406,
       digits |-> <<"<U+0966>", "<U+0967>", "<U+0968>", "<U+0969>", "<U+096A>",
                   "<U+096B>", "<U+096C>", "<U+096D>", "<U+096E>", "<U+096F>">>],
      [zero |-> 2534,
       digits |-> <<"<U+09E6>", "<U+09E7>", "<U+09E8>", "<U+09E9>", "<U+09EA>",
                   "<U+09EB>", "<U+09EC>", "<U+09ED>", "<U+09EE>", "<U+09EF>">>],
      [zero |-> 2662,
       digits |-> <<"<U+0A66>", "<U+0A67>", "<U+0A68>", "<U+0A69>", "<U+0A6A>",
                   "<U+0A6B>", "<U+0A6C>", "<U+0A6D>", "<U+0A6E>", "<U+0A6F>">>],
      [zero |-> 2790,
       digits |-> <<"<U+0AE6>", "<U+0AE7>", "<U+0AE8>", "<U+0AE9>", "<U+0AEA>",
                   "<U+0AEB>", "<U+0AEC>", "<U+0AED>", "<U+0AEE>", "<U+0AEF>">>],
      [zero |-> 2918,
       digits |-> <<"<U+0B66>", "<U+0B67>", "<U+0B68>", "<U+0B69>", "<U+0B6A>",
                   "<U+0B6B>", "<U+0B6C>", "<U+0B6D>", "<U+0B6E>", "<U+0B6F>">>],
      [zero |-> 3046,
       digits |-> <<"<U+0BE6>", "<U+0BE7>", "<U+0BE8>", "<U+0BE9>", "<U+0BEA>",
                   "<U+0BEB>", "<U+0BEC>", "<U+0BED>", "<U+0BEE>", "<U+0BEF>">>],
      [zero |-> 3174,
       digits |-> <<"<U+0C66>", "<U+0C67>", "<U+0C68>", "<U+0C69>", "<U+0C6A>",
                   "<U+0C6B>", "<U+0C6C>", "<U+0C6D>", "<U+0C6E>", "<U+0C6F>">>],
      [zero |-> 3302,
       digits |-> <<"<U+0CE6>", "<U+0CE7>", "<U+0CE8>", "<U+0CE9>", "<U+0CEA>",
                   "<U+0CEB>", "<U+0CEC>", "<U+0CED>", "<U+0CEE>", "<U+0CEF>">>],
      [zero |-> 3430,
       digits |-> <<"<U+0D66>", "<U+0D67>", "<U+0D68>", "<U+0D69>", "<U+0D6A>",
                   "<U+0D6B>", "<U+0D6C>", "<U+0D6D>", "<U+0D6E>", "<U+0D6F>">>],
      [zero |-> 3558,
       digits |-> <<"<U+0DE6>", "<U+0DE7>", "<U+0DE8>", "<U+0DE9>", "<U+0DEA>",
                   "<U+0DEB>", "<U+0DEC>", "<U+0DED>", "<U+0DEE>", "<U+0DEF>">>],
      [zero |-> 3664,
       digits |-> <<"<U+0E50>", "<U+0E51>", "<U+0E52>", "<U+0E53>", "<U+0E54>",
                   "<U+0E55>", "<U+0E56>", "<U+0E57>", "<U+0E58>", "<U+0E59>">>],
      [zero |-> 3792,
       digits |-> <<"<U+0ED0>", "<U+0ED1>", "<U+0ED2>", "<U+0ED3>", "<U+0ED4>",
                   "<U+0ED5>", "<U+0ED6>", "<U+0ED7>", "<U+0ED8>", "<U+0ED9>">>],
      [zero |-> 3872,
       digits |-> <<"<U+0F20>", "<U+0F21>", "<U+0F22>", "<U+0F23>", "<U+0F24>",
                   "<U+0F25>", "<U+0F26>", "<U+0F27>", "<U+0F28>", "<U+0F29>">>],
      [zero |-> 4160,
       digits |-> <<"<U+1040>", "<U+1041>", "<U+1042>", "<U+1043>", "<U+1044>",
                   "<U+1045>", "<U+1046>", "<U+1047>", "<U+1048>", "<U+1049>">>],
      [zero |-> 4240,
       digits |-> <<"<U+1090>", "<U+1091>", "<U+1092>", "<U+1093>", "<U+1094>",
                   "<U+1095>", "<U+1096>", "<U+1097>", "<U+1098>", "<U+1099>">>],
      [zero |-> 6112,
       digits |-> <<"<U+17E0>", "<U+17E1>", "<U+17E2>", "<U+17E3>", "<U+17E4>",
                   "<U+17E5>", "<U+17E6>", "<U+17E7>", "<U+17E8>", "<U+17E9>">>],
      [zero |-> 6160,
       digits |-> <<"<U+1810>", "<U+1811>", "<U+1812>", "<U+1813>", "<U+1814>",
                   "<U+1815>", "<U+1816>", "<U+1817>", "<U+1818>", "<U+1819>">>],
      [zero |-> 6470,
       digits |-> <<"<U+1946>", "<U+1947>", "<U+1948>", "<U+1949>", "<U+194A>",
                   "<U+194B>", "<U+194C>", "<U+194D>", "<U+194E>", "<U+194F>">>],
      [zero |-> 6608,
       digits |-> <<"<U+19D0>", "<U+19D1>", "<U+19D2>", "<U+19D3>", "<U+19D4>",
                   "<U+19D5>", "<U+19D6>", "<U+19D7>", "<U+19D8>", "<U+19D9>">>],
      [zero |-> 6784,
       digits |-> <<"<U+1A80>", "<U+1A81>", "<U+1A82>", "<U+1A83>", "<U+1A84>",
                   "<U+1A85>", "<U+1A86>", "<U+1A87>", "<U+1A88>", "<U+1A89>">>],
      [zero |-> 6800,
       digits |-> <<"<U+1A90>", "<U+1A91>", "<U+1A92>", "<U+1A93>", "<U+1A94>",
                   "<U+1A95>", "<U+1A96>", "<U+1A97>", "<U+1A98>", "<U+1A99>">>],
      [zero |-> 6992,
       digits |-> <<"<U+1B50>", "<U+1B51>", "<U+1B52>", "<U+1B53>", "<U+1B54>",
                   "<U+1B55>", "<U+1B56>", "<U+1B57>", "<U+1B58>", "<U+1B59>">>],
      [zero |-> 7088,
       digits |-> <<"<U+1BB0>", "<U+1BB1>", "<U+1BB2>", "<U+1BB3>", "<U+1BB4>",
                   "<U+1BB5>", "<U+1BB6>", "<U+1BB7>", "<U+1BB8>", "<U+1BB9>">>],
      [zero |-> 7232,
       digits |-> <<"<U+1C40>", "<U+1C41>", "<U+1C42>", "<U+1C43>", "<U+1C44>",
                   "<U+1C45>", "<U+1C46>", "<U+1C47>", "<U+1C48>", "<U+1C49>">>],
      [zero |-> 7248,
       digits |-> <<"<U+1C50>", "<U+1C51>", "<U+1C52>", "<U+1C53>", "<U+1C54>",
                   "<U+1C55>", "<U+1C56>", "<U+1C57>", "<U+1C58>", "<U+1C59>">>],
      [zero |-> 42528,
       digits |-> <<"<U+A620>", "<U+A621>", "<U+A622>", "<U+A623>", "<U+A624>",
                   "<U+A625>", "<U+A626>", "<U+A627>", "<U+A628>", "<U+A629>">>],
      [zero |-> 43216,
       digits |-> <<"<U+A8D0>", "<U+A8D1>", "<U+A8D2>", "<U+A8D3>", "<U+A8D4>",
                   "<U+A8D5>", "<U+A8D6>", "<U+A8D7>", "<U+A8D8>", "<U+A8D9>">>],
      [zero |-> 43264,
       digits |-> <<"<U+A900>", "<U+A901>", "<U+A902>", "<U+A903>", "<U+A904>",
                   "<U+A905>", "<U+A906>", "<U+A907>", "<U+A908>", "<U+A909>">>],
      [zero |-> 43472,
       digits |-> <<"<U+A9D0>", "<U+A9D1>", "<U+A9D2>", "<U+A9D3>", "<U+A9D4>",
                   "<U+A9D5>", "<U+A9D6>", "<U+A9D7>", "<U+A9D8>", "<U+A9D9>">>],
      [zero |-> 43504,
       digits |-> <<"<U+A9F0>", "<U+A9F1>", "<U+A9F2>", "<U+A9F3>", "<U+A9F4>",
                   "<U+A9F5>", "<U+A9F6>", "<U+A9F7>", "<U+A9F8>", "<U+A9F9>">>],
      [zero |-> 43600,
       digits |-> <<"<U+AA50>", "<U+AA51>", "<U+AA52>", "<U+AA53>", "<U+AA54>",
                   "<U+AA55>", "<U+AA56>", "<U+AA57>", "<U+AA58>", "<U+AA59>">>],
      [zero |-> 44016,
       digits |-> <<"<U+ABF0>", "<U+ABF1>", "<U+ABF2>", "<U+ABF3>", "<U+ABF4>",
                   "<U+ABF5>", "<U+ABF6>", "<U+ABF7>", "<U+ABF8>", "<U+ABF9>">>],
      [zero |-> 65296,
       digits |-> <<"<U+FF10>", "<U+FF11>", "<U+FF12>", "<U+FF13>", "<U+FF14>",
                   "<U+FF15>", "<U+FF16>", "<U+FF17>", "<U+FF18>", "<U+FF19>">>],
      [zero |-> 66720,
       digits |-> <<"<U+104A0>", "<U+104A1>", "<U+104A2>", "<U+104A3>",
                   "<U+104A4>", "<U+104A5>", "<U+104A6>", "<U+104A7>",
                   "<U+104A8>", "<U+104A9>">>],
      [zero |-> 68912,
       digits |-> <<"<U+10D30>", "<U+10D31>", "<U+10D32>", "<U+10D33>",
                   "<U+10D34>", "<U+10D35>", "<U+10D36>", "<U+10D37>",
                   "<U+10D38>", "<U+10D39>">>],
      [zero |-> 69734,
       digits |-> <<"<U+11066>", "<U+11067>", "<U+11068>", "<U+11069>",
                   "<U+1106A>", "<U+1106B>", "<U+1106C>", "<U+1106D>",
                   "<U+1106E>", "<U+1106F>">>],
      [zero |-> 69872,
       digits |-> <<"<U+110F0>", "<U+110F1>", "<U+110F2>", "<U+110F3>",
                   "<U+110F4>", "<U+110F5>", "<U+110F6>", "<U+110F7>",
                   "<U+110F8>", "<U+110F9>">>],
      [zero |-> 69942,
       digits |-> <<"<U+11136>", "<U+11137>", "<U+11138>", "<U+11139>",
                   "<U+1113A>", "<U+1113B>", "<U+1113C>", "<U+1113D>",
                   "<U+1113E>", "<U+1113F>">>],
      [zero |-> 70096,
       digits |-> <<"<U+111D0>", "<U+111D1>", "<U+111D2>", "<U+111D3>",
                   "<U+111D4>", "<U+111D5>", "<U+111D6>", "<U+111D7>",
                   "<U+111D8>", "<U+111D9>">>],
      [zero |-> 70384,
       digits |-> <<"<U+112F0>", "<U+112F1>", "<U+112F2>", "<U+112F3>",
                   "<U+112F4>", "<U+112F5>", "<U+112F6>", "<U+112F7>",
                   "<U+112F8>", "<U+112F9>">>],
      [zero |-> 70736,
       digits |-> <<"<U+11450>", "<U+11451>", "<U+11452>", "<U+11453>",
                   "<U+11454>", "<U+11455>", "<U+11456>", "<U+11457>",
                   "<U+11458>", "<U+11459>">>],
      [zero |-> 70864,
       digits |-> <<"<U+114D0>", "<U+114D1>", "<U+114D2>", "<U+114D3>",
                   "<U+114D4>", "<U+114D5>", "<U+114D6>", "<U+114D7>",
                   "<U+114D8>", "<U+114D9>">>],
      [zero |-> 71248,
       digits |-> <<"<U+11650>", "<U+11651>", "<U+11652>", "<U+11653>",
                   "<U+11654>", "<U+11655>", "<U+11656>", "<U+11657>",
                   "<U+11658>", "<U+11659>">>],
      [zero |-> 71360,
       digits |-> <<"<U+116C0>", "<U+116C1>", "<U+116C2>", "<U+116C3>",
                   "<U+116C4>", "<U+116C5>", "<U+116C6>", "<U+116C7>",
                   "<U+116C8>", "<U+116C9>">>],
      [zero |-> 71472,
       digits |-> <<"<U+11730>", "<U+11731>", "<U+11732>", "<U+11733>",
                   "<U+11734>", "<U+11735>", "<U+11736>", "<U+11737>",
                   "<U+11738>", "<U+11739>">>],
      [zero |-> 71904,
       digits |-> <<"<U+118E0>", "<U+118E1>", "<U+118E2>", "<U+118E3>",
                   "<U+118E4>", "<U+118E5>", "<U+118E6>", "<U+118E7>",
                   "<U+118E8>", "<U+118E9>">>],
      [zero |-> 72016,
       digits |-> <<"<U+11950>", "<U+11951>", "<U+11952>", "<U+11953>",
                   "<U+11954>", "<U+11955>", "<U+11956>", "<U+11957>",
                   "<U+11958>", "<U+11959>">>],
      [zero |-> 72784,
       digits |-> <<"<U+11C50>", "<U+11C51>", "<U+11C52>", "<U+11C53>",
                   "<U+11C54>", "<U+11C55>", "<U+11C56>", "<U+11C57>",
                   "<U+11C58>", "<U+11C59>">>],
      [zero |-> 73040,
       digits |-> <<"<U+11D50>", "<U+11D51>", "<U+11D52>", "<U+11D53>",
                   "<U+11D54>", "<U+11D55>", "<U+11D56>", "<U+11D57>",
                   "<U+11D58>", "<U+11D59>">>],
      [zero |-> 73120,
       digits |-> <<"<U+11DA0>", "<U+11DA1>", "<U+11DA2>", "<U+11DA3>",
                   "<U+11DA4>", "<U+11DA5>", "<U+11DA6>", "<U+11DA7>",
                   "<U+11DA8>", "<U+11DA9>">>],
      [zero |-> 92768,
       digits |-> <<"<U+16A60>", "<U+16A61>", "<U+16A62>", "<U+16A63>",
                   "<U+16A64>", "<U+16A65>", "<U+16A66>", "<U+16A67>",
                   "<U+16A68>", "<U+16A69>">>],
      [zero |-> 92864,
       digits |-> <<"<U+16AC0>", "<U+16AC1>", "<U+16AC2>", "<U+16AC3>",
                   "<U+16AC4>", "<U+16AC5>", "<U+16AC6>", "<U+16AC7>",
                   "<U+16AC8>", "<U+16AC9>">>],
      [zero |-> 93008,
       digits |-> <<"<U+16B50>", "<U+16B51>", "<U+16B52>", "<U+16B53>",
                   "<U+16B54>", "<U+16B55>", "<U+16B56>", "<U+16B57>",
                   "<U+16B58>", "<U+16B59>">>],
      [zero |-> 120782,
       digits |-> <<"<U+1D7CE>", "<U+1D7CF>", "<U+1D7D0>", "<U+1D7D1>",
                   "<U+1D7D2>", "<U+1D7D3>", "<U+1D7D4>", "<U+1D7D5>",
                   "<U+1D7D6>", "<U+1D7D7>">>],
      [zero |-> 120792,
       digits |-> <<"<U+1D7D8>", "<U+1D7D9>", "<U+1D7DA>", "<U+1D7DB>",
                   "<U+1D7DC>", "<U+1D7DD>", "<U+1D7DE>", "<U+1D7DF>",
                   "<U+1D7E0>", "<U+1D7E1>">>],
      [zero |-> 120802,
       digits |-> <<"<U+1D7E2>", "<U+1D7E3>", "<U+1D7E4>", "<U+1D7E5>",
                   "<U+1D7E6>", "<U+1D7E7>", "<U+1D7E8>", "<U+1D7E9>",
                   "<U+1D7EA>", "<U+1D7EB>">>],
      [zero |-> 120812,
       digits |-> <<"<U+1D7EC>", "<U+1D7ED>", "<U+1D7EE>", "<U+1D7EF>",
                   "<U+1D7F0>", "<U+1D7F1>", "<U+1D7F2>", "<U+1D7F3>",
                   "<U+1D7F4>", "<U+1D7F5>">>],
      [zero |-> 120822,
       digits |-> <<"<U+1D7F6>", "<U+1D7F7>", "<U+1D7F8>", "<U+1D7F9>",
                   "<U+1D7FA>", "<U+1D7FB>", "<U+1D7FC>", "<U+1D7FD>",
                   "<U+1D7FE>", "<U+1D7FF>">>],
      [zero |-> 123200,
       digits |-> <<"<U+1E140>", "<U+1E141>", "<U+1E142>", "<U+1E143>",
                   "<U+1E144>", "<U+1E145>", "<U+1E146>", "<U+1E147>",
                   "<U+1E148>", "<U+1E149>">>],
      [zero |-> 123632,
       digits |-> <<"<U+1E2F0>", "<U+1E2F1>", "<U+1E2F2>", "<U+1E2F3>",
                   "<U+1E2F4>", "<U+1E2F5>", "<U+1E2F6>", "<U+1E2F7>",
                   "<U+1E2F8>", "<U+1E2F9>">>],
      [zero |-> 125264,
       digits |-> <<"<U+1E950>", "<U+1E951>", "<U+1E952>", "<U+1E953>",
                   "<U+1E954>", "<U+1E955>", "<U+1E956>", "<U+1E957>",
                   "<U+1E958>", "<U+1E959>">>],
      [zero |-> 130032,
       digits |-> <<"<U+1FBF0>", "<U+1FBF1>", "<U+1FBF2>", "<U+1FBF3>",
                   "<U+1FBF4>", "<U+1FBF5>", "<U+1FBF6>", "<U+1FBF7>",
                   "<U+1FBF8>", "<U+1FBF9>">>]>>

\* The whitespace of str.isspace outside ASCII, each with its code point
WideSpaces ==
    <<[ord |-> 133, char |-> "<U+0085>"], [ord |-> 160, char |-> "<U+00A0>"],
      [ord |-> 5760, char |-> "<U+1680>"],
      [ord |-> 8192, char |-> "<U+2000>"],
      [ord |-> 8193, char |-> "<U+2001>"],
      [ord |-> 8194, char |-> "<U+2002>"],
      [ord |-> 8195, char |-> "<U+2003>"],
      [ord |-> 8196, char |-> "<U+2004>"],
      [ord |-> 8197, char |-> "<U+2005>"],
      [ord |-> 8198, char |-> "<U+2006>"],
      [ord |-> 8199, char |-> "<U+2007>"],
      [ord |-> 8200, char |-> "<U+2008>"],
      [ord |-> 8201, char |-> "<U+2009>"],
      [ord |-> 8202, char |-> "<U+200A>"],
      [ord |-> 8232, char |-> "<U+2028>"],
      [ord |-> 8233, char |-> "<U+2029>"],
      [ord |-> 8239, char |-> "<U+202F>"],
      [ord |-> 8287, char |-> "<U+205F>"],
      [ord |-> 12288, char |-> "<U+3000>"]>>

\* str.isspace: what strip removes
Whitespace ==
    {"<U+0009>", "<U+000A>", "<U+000B>", "<U+000C>", "<U+000D>", "<U+001C>",
     "<U+001D>", "<U+001E>", "<U+001F>", " "}
    \cup {WideSpaces[k].char : k \in 1..Len(WideSpaces)}

IsSpace(c) == c \in Whitespace

\* the two characters of the source literal at line 119/124
OtherChars ==
    <<[ord |-> 21311, char |-> "<U+533F>"], [ord |-> 21517, char |-> "<U+540D>"]>>

DecimalChars ==
    UNION {{DecimalRuns[r].digits[d] : d \in 1..10} : r \in 1..Len(DecimalRuns)}

\* int(c) for every decimal digit c
DecimalTable ==
    [c \in DecimalChars |->
        (CHOOSE d \in 1..10 :
             \E r \in 1..Len(DecimalRuns) : DecimalRuns[r].digits[d] = c) - 1]

\* ord(c) for the characters above
OrdTable ==
    [c \in AsciiChars |-> (CHOOSE k \in 1..Len(Ascii) : Ascii[k] = c) - 1]
    @@ [c \in DecimalChars |->
           DecimalRuns[CHOOSE r \in 1..Len(DecimalRuns) :
                           \E d \in 1..10 : DecimalRuns[r].digits[d] = c].zero
           + DecimalTable[c]]
    @@ [c \in {WideSpaces[k].char : k \in 1..Len(WideSpaces)} |->
           WideSpaces[CHOOSE k \in 1..Len(WideSpaces) : WideSpaces[k].char = c].ord]
    @@ [c \in {OtherChars[k].char : k \in 1..Len(OtherChars)} |->
           OtherChars[CHOOSE k \in 1..Len(OtherChars) : OtherChars[k].char = c].ord]

Ord(c) == OrdTable[c]

\* the ASCII digits
Digits == {"0", "1", "2", "3", "4", "5", "6", "7", "8", "9"}

IsAsciiDigit(c) == c \in Digits

\* \d of a str pattern (line 15, and %Y of strptime)
IsDigit(c) == c \in DecimalChars

DigitChar(d) == Ascii[d + 49]

DigitVal(c) == DecimalTable[c]

\* str(n) for a natural number
RECURSIVE Decimal(_)
Decimal(n) == IF n < 10 THEN <<DigitChar(n)>>
              ELSE Decimal(n \div 10) \o <<DigitChar(n % 10)>>

\* Python truthiness of None, a str or float nan (nan is not 0.0: truthy)
Truthy(x) == x # None /\ x # <<>>

\* isinstance(x, str)
IsStr(x) == x # None /\ x # NaN

\* a or b
PyOr(a, b) == IF Truthy(a) THEN a ELSE b

\* d.get(k)
Get(d, k) == IF k \in DOMAIN d THEN d[k] ELSE None

\* s < t for str (code point order, prefix first)
RECURSIVE StrLess(_, _)
StrLess(s, t) ==
    IF t = <<>> THEN FALSE
    ELSE IF s = <<>> THEN TRUE
    ELSE IF Head(s) = Head(t) THEN StrLess(Tail(s), Tail(t))
    ELSE Ord(Head(s)) < Ord(Head(t))

\* s.strip()
RECURSIVE LStrip(_)
LStrip(s) == IF s # <<>> /\ IsSpace(Head(s)) THEN LStrip(Tail(s)) ELSE s

RECURSIVE RStrip(_)
RStrip(s) ==
    IF s # <<>> /\ IsSpace(s[Len(s)]) THEN RStrip(SubSeq(s, 1, Len(s) - 1)) ELSE s

Strip(s) == RStrip(LStrip(s))

\* s.startswith(p)
StartsWith(s, p) == Len(s) >= Len(p) /\ SubSeq(s, 1, Len(p)) = p

(***************************************************************************)
(* NICO_ID_RE = (sm\d+|so\d+|nm\d+), line 15                                *)
(***************************************************************************)
NicoPrefixes == {<<"s", "m">>, <<"s", "o">>, <<"n", "m">>}

\* last position of the run of digits that starts at p (p - 1 when there is none)
RECURSIVE DigitRunEnd(_, _)
DigitRunEnd(s, p) ==
    IF p <= Len(s) /\ IsDigit(s[p]) THEN DigitRunEnd(s, p + 1) ELSE p - 1

\* NICO_ID_RE.findall(s), scanning from position p
RECURSIVE FindAllFrom(_, _)
FindAllFrom(s, p) ==
    IF p + 2 > Len(s) THEN <<>>
    ELSE IF SubSeq(s, p, p + 1) \in NicoPrefixes /\ IsDigit(s[p + 2])
         THEN LET e == DigitRunEnd(s, p + 2)
              IN  <<SubSeq(s, p, e)>> \o FindAllFrom(s, e + 1)
         ELSE FindAllFrom(s, p + 1)

NICO_ID_RE_findall(s) == FindAllFrom(s, 1)

(***************************************************************************)
(* Literals of the source                                                  *)
(***************************************************************************)
OFFICIAL_UNKNOWN == <<"[official/unknown]">>      \* line 32  "公式/不明"
TITLE_UNAVAILABLE == <<"[title unavailable]">>    \* line 74  "[タイトル取得不可]"
UPLOADER_UNKNOWN == <<"[uploader unknown]">>      \* line 75  "[投稿者不明]"
DATE_UNKNOWN == <<"[unknown]">>                   \* line 94  "[不明]"
INFO_UNAVAILABLE == <<"[info unavailable]">>      \* line 160 "[情報取得不可]"
UNAVAILABLE == <<"[unavailable]">>                \* line 160 "[取得不可]"
ANONYMOUS == <<"<U+533F>", "<U+540D>">>           \* line 119 "匿名"
WATCH_URL == <<"https://www.nicovideo.jp/watch/">> \* line 34

(***************************************************************************)
(* datetime: strptime('%Y%m%d') of line 97, fromisoformat of line 28 (the   *)
(* parser of CPython 3.11) and strftime of lines 33 and 98.  strftime('%Y') *)
(* of the C library does not pad the year: year 999 prints as "999".        *)
(***************************************************************************)
IsLeap(y) == (y % 4 = 0 /\ y % 100 # 0) \/ y % 400 = 0

DaysIn(y, m) == IF m = 2 THEN (IF IsLeap(y) THEN 29 ELSE 28)
                ELSE IF m \in {4, 6, 9, 11} THEN 30 ELSE 31

ValidDate(y, m, d) ==
    y >= 1 /\ y <= 9999 /\ m \in 1..12 /\ d >= 1 /\ d <= DaysIn(y, m)

\* the character at position p, NUL past the end of the str (the C string's
\* terminator: a U+0000 in the str reads the same)
NUL == "<U+0000>"

Ch(s, p) == IF p \in 1..Len(s) THEN s[p] ELSE NUL

\* s[a..b] are ASCII digits
DigitsAt(s, a, b) == \A k \in a..b : IsAsciiDigit(Ch(s, k))

\* int(s[a..b]) for decimal digits
RECURSIVE NumAt(_, _, _)
NumAt(s, a, b) == IF b < a THEN 0 ELSE 10 * NumAt(s, a, b - 1) + DigitVal(s[b])

\* c is one of the characters lo..hi, ASCII digits
InRange(c, lo, hi) == IsAsciiDigit(c) /\ DigitVal(c) \in lo..hi

\* the two characters %m accepts at s[a..a+1], 1[0-2]|0[1-9] (0 when they
\* are neither; the one-character alternative leaves the str unconverted)
MonthField(s, a) ==
    IF (s[a] = "1" /\ InRange(s[a + 1], 0, 2)) \/ (s[a] = "0" /\ InRange(s[a + 1], 1, 9))
    THEN NumAt(s, a, a + 1) ELSE 0

\* the two characters %d accepts at s[a..a+1], 3[0-1]|[1-2]\d|0[1-9]| [1-9]
\* (0 when they are none of these)
DayField(s, a) ==
    IF \/ s[a] = "3" /\ InRange(s[a + 1], 0, 1)
       \/ s[a] \in {"1", "2"} /\ IsDigit(s[a + 1])
       \/ s[a] = "0" /\ InRange(s[a + 1], 1, 9)
    THEN NumAt(s, a, a + 1)
    ELSE IF s[a] = " " /\ InRange(s[a + 1], 1, 9) THEN DigitVal(s[a + 1])
    ELSE 0

TwoDigits(n) == <<DigitChar(n \div 10), DigitChar(n % 10)>>

\* strftime('%Y-%m-%d')
DateStamp(y, m, d) == Decimal(y) \o <<"-">> \o TwoDigits(m) \o <<"-">> \o TwoDigits(d)

\* datetime.strptime(s, '%Y%m%d') succeeds, for a str of length 8
StrptimeOk(s) ==
    /\ \A k \in 1..4 : IsDigit(s[k])
    /\ ValidDate(NumAt(s, 1, 4), MonthField(s, 5), DayField(s, 7))

\* format_date, lines 91-101
format_date(date_str) ==
    IF ~Truthy(date_str) \/ ~IsStr(date_str) THEN DATE_UNKNOWN
    ELSE IF Len(date_str) = 8 /\ StrptimeOk(date_str)
         THEN DateStamp(NumAt(date_str, 1, 4), MonthField(date_str, 5),
                        DayField(date_str, 7))
         ELSE date_str

\* the proleptic Gregorian ordinal, for y >= 1
DaysBeforeYear(y) ==
    (y - 1) * 365 + (y - 1) \div 4 - (y - 1) \div 100 + (y - 1) \div 400

RECURSIVE DaysBeforeMonth(_, _)
DaysBeforeMonth(y, m) ==
    IF m <= 1 THEN 0 ELSE DaysBeforeMonth(y, m - 1) + DaysIn(y, m - 1)

YmdToOrd(y, m, d) == DaysBeforeYear(y) + DaysBeforeMonth(y, m) + d

\* 0 is Monday
Weekday(y, m, d) == (YmdToOrd(y, m, d) + 6) % 7

\* the ordinal of the Monday of ISO week 1 of year y
IsoWeek1Monday(y) ==
    LET first_day == YmdToOrd(y, 1, 1)
        first_weekday == (first_day + 6) % 7
    IN  IF first_weekday > 3 THEN first_day - first_weekday + 7
        ELSE first_day - first_weekday

\* the month and day of the n-th day of year y, from month m on
RECURSIVE MonthDay(_, _, _)
MonthDay(y, m, n) ==
    IF n > DaysIn(y, m) THEN MonthDay(y, m + 1, n - DaysIn(y, m))
    ELSE [month |-> m, day |-> n]

NoDate == [ok |-> FALSE, year |-> 0, month |-> 0, day |-> 0]

\* the date of ordinal o, which lies in year y0 - 1, y0 or y0 + 1; a date
\* before year 1 is no date
OrdToYmd(o, y0) ==
    IF o < 1 THEN NoDate
    ELSE LET y == IF o <= DaysBeforeYear(y0) THEN y0 - 1
                  ELSE IF o > DaysBeforeYear(y0 + 1) THEN y0 + 1 ELSE y0
             md == MonthDay(y, 1, o - DaysBeforeYear(y))
         IN  [ok |-> TRUE, year |-> y, month |-> md.month, day |-> md.day]

\* the end of the run of digits of a week date without dashes, from idx on
RECURSIVE WeekDigitsEnd(_, _)
WeekDigitsEnd(s, idx) ==
    IF idx < Len(s) /\ IsAsciiDigit(Ch(s, idx + 1)) THEN WeekDigitsEnd(s, idx + 1)
    ELSE idx

\* the number of characters of the date part of s, Len(s) >= 7 (-1: none)
SeparatorLocation(s) ==
    IF Len(s) = 7 THEN 7
    ELSE IF Ch(s, 5) = "-"
    THEN IF Ch(s, 6) = "W"
         THEN IF Len(s) < 8 THEN -1
              ELSE IF Len(s) > 8 /\ Ch(s, 9) = "-"
              THEN IF Len(s) = 9 THEN -1
                   ELSE IF Len(s) > 10 /\ IsAsciiDigit(Ch(s, 11)) THEN 8
                   ELSE 10
              ELSE 8
         ELSE 10
    ELSE IF Ch(s, 5) = "W"
    THEN LET idx == WeekDigitsEnd(s, 7)
         IN  IF idx < 9 THEN idx ELSE IF idx % 2 = 0 THEN 7 ELSE 8
    ELSE 8

\* year y has an ISO week 53
HasWeek53(y) ==
    Weekday(y, 1, 1) = 3 \/ (Weekday(y, 1, 1) = 2 /\ IsLeap(y))

\* the week date year, week, day as a calendar date
IsoToYmd(year, week, day) ==
    IF year < 1 THEN NoDate
    ELSE IF (week <= 0 \/ week >= 53) /\ ~(week = 53 /\ HasWeek53(year)) THEN NoDate
    ELSE IF day <= 0 \/ day >= 8 THEN NoDate
    ELSE OrdToYmd(IsoWeek1Monday(year) + (week - 1) * 7 + day - 1, year)

\* the week date that follows the year: the W is at position p - 1, n is the
\* length of the date part
ParseWeekDate(s, n, sep, p) ==
    IF ~DigitsAt(s, p, p + 1) THEN NoDate
    ELSE IF p + 1 < n
    THEN LET q == IF sep THEN p + 3 ELSE p + 2
         IN  IF sep /\ Ch(s, p + 2) # "-" THEN NoDate
             ELSE IF ~IsAsciiDigit(Ch(s, q)) THEN NoDate
             ELSE IsoToYmd(NumAt(s, 1, 4), NumAt(s, p, p + 1), NumAt(s, q, q))
    ELSE IsoToYmd(NumAt(s, 1, 4), NumAt(s, p, p + 1), 1)

\* the date part of s: YYYY-MM-DD, YYYYMMDD, YYYY-Www[-D] or YYYYWww[D]
ParseIsoDate(s, n) ==
    IF ~DigitsAt(s, 1, 4) THEN NoDate
    ELSE LET sep == Ch(s, 5) = "-"
             p == IF sep THEN 6 ELSE 5
             q == IF sep THEN p + 3 ELSE p + 2
         IN  IF Ch(s, p) = "W" THEN ParseWeekDate(s, n, sep, p + 1)
             ELSE IF ~DigitsAt(s, p, p + 1) THEN NoDate
             ELSE IF sep /\ Ch(s, p + 2) # "-" THEN NoDate
             ELSE IF ~DigitsAt(s, q, q + 1) THEN NoDate
             ELSE [ok |-> TRUE, year |-> NumAt(s, 1, 4),
                   month |-> NumAt(s, p, p + 1), day |-> NumAt(s, q, q + 1)]

\* a result of the clock parser: rv < 0 failure, rv = 1 characters are left
Clock(rv, vals) ==
    [rv |-> rv, hour |-> vals[1], minute |-> vals[2], second |-> vals[3]]

ClockFail == Clock(-3, <<0, 0, 0>>)

\* last position of the run of ASCII digits that starts at p
RECURSIVE AsciiDigitRunEnd(_, _)
AsciiDigitRunEnd(s, p) ==
    IF IsAsciiDigit(Ch(s, p)) THEN AsciiDigitRunEnd(s, p + 1) ELSE p - 1

\* the fraction of a second at s[p..e-1], e - p >= 1: up to 6 digits are
\* read, further digits skipped
Fraction(s, e, p, vals) ==
    LET to_parse == IF e - p >= 6 THEN 6 ELSE e - p
    IN  IF ~DigitsAt(s, p, p + to_parse - 1) THEN ClockFail
        ELSE Clock(IF Ch(s, AsciiDigitRunEnd(s, p + to_parse) + 1) # NUL THEN 1
                   ELSE 0, vals)

\* HH[:MM[:SS]] or HH[MM[SS]] at s[p..e-1], component i of 3, then a fraction.
\* The parser reads bytes: past a character c of more than one byte it is
\* not yet at e
RECURSIVE ClockLoop(_, _, _, _, _, _)
ClockLoop(s, e, comp, p, has_separator, vals) ==
    IF ~DigitsAt(s, p, p + 1) THEN ClockFail
    ELSE LET v == [vals EXCEPT ![comp] = NumAt(s, p, p + 1)]
             c == Ch(s, p + 2)
             sep == IF comp = 1 THEN c = ":" ELSE has_separator
         IN  IF p + 3 >= e /\ IsAscii(c) THEN Clock(IF c # NUL THEN 1 ELSE 0, v)
             ELSE IF sep /\ c = ":"
             THEN IF comp = 3 THEN Fraction(s, e, p + 3, v)
                  ELSE ClockLoop(s, e, comp + 1, p + 3, sep, v)
             ELSE IF c \in {".", ","} THEN Fraction(s, e, p + 3, v)
             ELSE IF ~sep
             THEN IF comp = 3 THEN Fraction(s, e, p + 2, v)
                  ELSE ClockLoop(s, e, comp + 1, p + 2, sep, v)
             ELSE Clock(-4, <<0, 0, 0>>)

ParseHhMmSsFf(s, a, e) == ClockLoop(s, e, 1, a, TRUE, <<0, 0, 0>>)

\* the position of the first Z, + or - from t on (past the end when none)
RECURSIVE TzPos(_, _)
TzPos(s, t) ==
    IF Ch(s, t) \in {"Z", "+", "-"} THEN t
    ELSE IF t + 1 < Len(s) + 1 THEN TzPos(s, t + 1) ELSE t + 1

NoTime == [ok |-> FALSE, hour |-> 0, minute |-> 0, second |-> 0, tzoffset |-> 0]

\* the time of day clock, parsed up to position t, with the UTC offset tz
\* parsed from t + 1 on (in seconds)
TimeOf(s, t, clock, tz) ==
    IF clock.rv < 0 THEN NoTime
    ELSE IF t = Len(s) + 1 /\ clock.rv = 1 THEN NoTime
    ELSE IF t # Len(s) + 1 /\ Ch(s, t) = "Z" /\ Ch(s, t + 1) # NUL THEN NoTime
    ELSE IF t # Len(s) + 1 /\ Ch(s, t) # "Z" /\ tz.rv # 0 THEN NoTime
    ELSE [ok |-> TRUE, hour |-> clock.hour, minute |-> clock.minute,
          second |-> clock.second,
          tzoffset |-> IF t # Len(s) + 1 /\ Ch(s, t) # "Z"
                       THEN tz.hour * 3600 + tz.minute * 60 + tz.second ELSE 0]

\* the time of day that starts at s[a], its offset sign at position t
TimeAt(s, a, t) ==
    TimeOf(s, t, ParseHhMmSsFf(s, a, t), ParseHhMmSsFf(s, t + 1, Len(s) + 1))

ParseIsoTime(s, a) == TimeAt(s, a, TzPos(s, a))

NoDateTime == [ok |-> FALSE, year |-> 0, month |-> 0, day |-> 0,
               hour |-> 0, minute |-> 0, second |-> 0]

\* the datetime of a parsed date and time: an offset of 24 hours or more and
\* fields out of range are refused
DateTimeOf(date, time) ==
    IF ~date.ok \/ ~time.ok THEN NoDateTime
    ELSE IF time.tzoffset >= 86400 THEN NoDateTime
    ELSE IF ~ValidDate(date.year, date.month, date.day) THEN NoDateTime
    ELSE IF time.hour > 23 \/ time.minute > 59 \/ time.second > 59 THEN NoDateTime
    ELSE [ok |-> TRUE, year |-> date.year, month |-> date.month, day |-> date.day,
          hour |-> time.hour, minute |-> time.minute, second |-> time.second]

\* s with a date part of n characters
FromIsoAt(s, n) ==
    IF n < 0 THEN NoDateTime
    ELSE DateTimeOf(ParseIsoDate(s, n),
                    IF Len(s) > n THEN ParseIsoTime(s, n + 2)
                    ELSE [NoTime EXCEPT !.ok = TRUE])

\* datetime.fromisoformat(s) for a str s: the fields, or ok = FALSE when it
\* raises ValueError
FromIso(s) == IF Len(s) < 7 THEN NoDateTime ELSE FromIsoAt(s, SeparatorLocation(s))

\* datetime.fromisoformat(raw_date) succeeds, line 28
FromIsoOk(raw_date) == IsStr(raw_date) /\ FromIso(raw_date).ok

\* strftime('%Y-%m-%d %H:%M:%S'), line 33
Stamp(dt) ==
    DateStamp(dt.year, dt.month, dt.day) \o <<" ">> \o TwoDigits(dt.hour)
    \o <<":">> \o TwoDigits(dt.minute) \o <<":">> \o TwoDigits(dt.second)

\* datetime.fromisoformat(raw_date).strftime('%Y-%m-%d %H:%M:%S'), lines 28, 33
IsoToStamp(raw_date) == Stamp(FromIso(raw_date))

(***************************************************************************)
(* Provider A: get_nico_metadata_api, lines 17-38.  r is the HTTP exchange: *)
(* r.raises (requests.get raised), r.status_code, r.well_formed (the body   *)
(* parses as XML), r.status (the root's status attribute) and r.thumb, the  *)
(* dict child tag -> text of the thumb element (key r.thumb absent: no      *)
(* thumb element; a tag absent: find() returns None; text None: empty tag). *)
(* The function's None is written NoData, the dict with no key.             *)
(***************************************************************************)
NoData == EmptyDict

\* the try block runs to the return statement of line 29 without raising
NicoParses(r) ==
    /\ ~r.raises
    /\ r.status_code = 200
    /\ r.well_formed
    /\ r.status = <<"o", "k">>
    /\ "thumb" \in DOMAIN r
    /\ "first_retrieve" \in DOMAIN r.thumb
    /\ FromIsoOk(r.thumb.first_retrieve)
    /\ "title" \in DOMAIN r.thumb

get_nico_metadata_api(video_id, r) ==
    IF r.raises THEN NoData
    ELSE IF r.status_code # 200 THEN NoData
    ELSE IF ~r.well_formed THEN NoData
    ELSE IF r.status # <<"o", "k">> THEN NoData
    ELSE IF ~NicoParses(r) THEN NoData
    ELSE [video_id |-> video_id,
          title |-> r.thumb.title,
          uploader |-> IF "user_nickname" \in DOMAIN r.thumb
                       THEN r.thumb.user_nickname ELSE OFFICIAL_UNKNOWN,
          upload_date |-> IsoToStamp(r.thumb.first_retrieve),
          url |-> WATCH_URL \o video_id]

(***************************************************************************)
(* The resolver: get_video_metadata, lines 40-89.  api is the sequence of   *)
(* HTTP exchanges the calls of provider A meet, in call order; ydl is what  *)
(* extract_info does: ydl.raises, or the info dict ydl.info.  The value is  *)
(* [results, calls]: results is [is_none, list] (None, or the list of       *)
(* video dicts) and calls the provider calls made, in order.                *)
(***************************************************************************)
ResNone == [is_none |-> TRUE, list |-> <<>>]

ResList(l) == [is_none |-> FALSE, list |-> l]

\* Python truthiness of a result: "if results:" at line 144
ResTruthy(r) == ~r.is_none /\ r.list # <<>>

\* history: one provider call, its argument and whether it gave data
NicoCall(video_id, r) ==
    [provider |-> "nico", arg |-> video_id,
     ok |-> get_nico_metadata_api(video_id, r) # NoData]

YdlCall(url_str, ydl) == [provider |-> "ydl", arg |-> url_str, ok |-> ~ydl.raises]

\* line 66: the condition raises AttributeError for a truthy v_id that is no
\* str (float nan has no startswith); otherwise value is its truth
HasNicoPrefix(v_id) ==
    IF Truthy(v_id) /\ ~IsStr(v_id) THEN [raises |-> TRUE]
    ELSE [raises |-> FALSE,
          value |-> Truthy(v_id) /\ (\/ StartsWith(v_id, <<"s", "m">>)
                                     \/ StartsWith(v_id, <<"s", "o">>)
                                     \/ StartsWith(v_id, <<"n", "m">>))]

\* line 66 holds without raising
IsNicoId(v_id) == ~HasNicoPrefix(v_id).raises /\ HasNicoPrefix(v_id).value

\* the dict of lines 72-78
EntryRecord(entry, url_str) ==
    LET v_id == Get(entry, "id")
    IN  [video_id |-> PyOr(v_id, Get(entry, "url")),
         title |-> PyOr(Get(entry, "title"), TITLE_UNAVAILABLE),
         uploader |-> PyOr(PyOr(Get(entry, "uploader"), Get(entry, "channel")),
                           UPLOADER_UNKNOWN),
         upload_date |-> format_date(Get(entry, "upload_date")),
         url |-> PyOr(Get(entry, "url"),
                      IF Truthy(v_id) THEN WATCH_URL \o v_id ELSE url_str)]

\* the dict of lines 81-87
InfoRecord(info, url_str) ==
    [video_id |-> Get(info, "id"),
     title |-> PyOr(Get(info, "title"), TITLE_UNAVAILABLE),
     uploader |-> PyOr(PyOr(Get(info, "uploader"), Get(info, "channel")),
                       UPLOADER_UNKNOWN),
     upload_date |-> format_date(Get(info, "upload_date")),
     url |-> url_str]

\* lines 67-78: the lookup's data when it gave some, else the entry's own
NicoDataOr(nico_data, entry, url_str) ==
    IF nico_data # NoData THEN nico_data ELSE EntryRecord(entry, url_str)

\* one turn of the loop of lines 62-78 for a non-empty entry: the video
\* appended, unless line 66 raises; r is the HTTP exchange its lookup meets
EntryVideo(entry, r, url_str) ==
    IF HasNicoPrefix(Get(entry, "id")).raises THEN [raises |-> TRUE]
    ELSE IF IsNicoId(Get(entry, "id"))
    THEN [raises |-> FALSE,
          video |-> NicoDataOr(get_nico_metadata_api(Get(entry, "id"), r),
                               entry, url_str)]
    ELSE [raises |-> FALSE, video |-> EntryRecord(entry, url_str)]

\* the loop of lines 62-78 from entry j on; k is the number of the next call
\* of provider A, videos and calls what the loop has gathered so far; raised
\* when line 66 raised, which ends the loop
RECURSIVE EntriesLoop(_, _, _, _, _, _, _)
EntriesLoop(entries, j, k, api, url_str, videos, calls) ==
    IF j > Len(entries) THEN [videos |-> videos, calls |-> calls, raised |-> FALSE]
    ELSE IF DOMAIN entries[j] = {}
    THEN EntriesLoop(entries, j + 1, k, api, url_str, videos, calls)
    ELSE IF HasNicoPrefix(Get(entries[j], "id")).raises
    THEN [videos |-> videos, calls |-> calls, raised |-> TRUE]
    ELSE IF IsNicoId(Get(entries[j], "id"))
    THEN EntriesLoop(entries, j + 1, k + 1, api, url_str,
                     Append(videos, EntryVideo(entries[j], api[k], url_str).video),
                     Append(calls, NicoCall(Get(entries[j], "id"), api[k])))
    ELSE EntriesLoop(entries, j + 1, k, api, url_str,
                     Append(videos, EntryRecord(entries[j], url_str)), calls)

\* a resolver that asks the general-purpose provider again when it raised
YdlBranch_retry(url_str, k, api, ydl) ==
    IF ydl.raises
    THEN [results |-> ResNone,
          calls |-> <<YdlCall(url_str, ydl), YdlCall(url_str, ydl)>>]
    ELSE IF "entries" \in DOMAIN ydl.info
         THEN LET loop == EntriesLoop(ydl.info.entries, 1, k, api, url_str,
                                      <<>>, <<YdlCall(url_str, ydl)>>)
              IN  IF loop.raised THEN [results |-> ResNone, calls |-> loop.calls]
                  ELSE [results |-> ResList(loop.videos), calls |-> loop.calls]
         ELSE [results |-> ResList(<<InfoRecord(ydl.info, url_str)>>),
               calls |-> <<YdlCall(url_str, ydl)>>]

\* history: extract_info was not called
NotExtracted == [called |-> FALSE]

\* history: what extract_info did, when the calls made include one of it
Extracted(calls, ydl) ==
    IF \E c \in 1..Len(calls) : calls[c].provider = "ydl" THEN ydl ELSE NotExtracted

\* lines 49-89: the general-purpose provider; k as above.  An exception in
\* the loop is caught at line 88 like one of extract_info
YdlBranch(url_str, k, api, ydl) ==
    IF ydl.raises THEN [results |-> ResNone, calls |-> <<YdlCall(url_str, ydl)>>]
    ELSE IF "entries" \in DOMAIN ydl.info
         THEN LET loop == EntriesLoop(ydl.info.entries, 1, k, api, url_str,
                                      <<>>, <<YdlCall(url_str, ydl)>>)
              IN  IF loop.raised THEN [results |-> ResNone, calls |-> loop.calls]
                  ELSE [results |-> ResList(loop.videos), calls |-> loop.calls]
         ELSE [results |-> ResList(<<InfoRecord(ydl.info, url_str)>>),
               calls |-> <<YdlCall(url_str, ydl)>>]

\* a resolver that never trusts the platform lookup
LookupSucceeded_never(data) == FALSE

\* line 46: "if data:"
LookupSucceeded(data) == data # NoData

\* lines 46-47 and 49-89: what follows the lookup of the first identifier,
\* which gave data and is recorded as call
AfterLookup(url_str, data, call, api, ydl) ==
    IF LookupSucceeded(data)
    THEN [results |-> ResList(<<data>>), calls |-> <<call>>]
    ELSE [results |-> YdlBranch(url_str, 2, api, ydl).results,
          calls |-> <<call>> \o YdlBranch(url_str, 2, api, ydl).calls]

\* lines 43-47: url_str is the stripped URL, nico_ids what findall gives
ResolveIds(url_str, nico_ids, api, ydl) ==
    IF nico_ids # <<>>
    THEN AfterLookup(url_str, get_nico_metadata_api(nico_ids[1], api[1]),
                     NicoCall(nico_ids[1], api[1]), api, ydl)
    ELSE YdlBranch(url_str, 1, api, ydl)

get_video_metadata(u, api, ydl) ==
    ResolveIds(Strip(u), NICO_ID_RE_findall(Strip(u)), api, ydl)

(***************************************************************************)
(* Inputs: the values the cells of the sheet and the two providers range    *)
(* over.                                                                    *)
(***************************************************************************)
MaxEntries == 2
MaxRows == 2
QUOTA == 10

SM1 == <<"s", "m", "1">>
\* sm2 with a fullwidth digit
SM2 == <<"s", "m", "<U+FF12>">>
NM3 == <<"n", "m", "3">>
YT1 == <<"y", "t", "1">>
T1 == <<"T", "1">>
T2 == <<"T", "2">>
U1 == <<"U", "1">>
U2 == <<"U", "2">>
ISO1 == <<"2", "0", "0", "7", "-", "0", "3", "-", "0", "6", "T",
          "0", "0", ":", "3", "3", ":", "0", "0", "+", "0", "9", ":", "0", "0">>
ISO_BAD == <<"2", "0", "0", "7", "-", "1", "3", "-", "0", "6">>
YMD1 == <<"2", "0", "2", "0", "0", "2", "2", "9">>
YMD_BAD == <<"2", "0", "2", "1", "0", "2", "2", "9">>
\* 20200229 with the year in fullwidth digits
YMD_WIDE == <<"<U+FF12>", "<U+FF10>", "<U+FF12>", "<U+FF10>", "0", "2", "2", "9">>

\* URL texts: a watch URL, the same between a tab and a newline, a text
\* naming two videos, a watch URL with a query, a mylist URL, the same between
\* a space and an ideographic space, and a foreign URL
URL_SM1 == <<"/", "s", "m", "1">>
URL_SM1_SP == <<"<U+0009>", "/", "s", "m", "1", "<U+000A>">>
URL_TWO == <<"/", "s", "m", "1", ",", "/">> \o SM2
URL_SM1_Q == <<"/", "s", "m", "1", "?", "a">>
URL_ML == <<"/", "m", "l", "/", "1">>
URL_ML_SP == <<" ", "/", "m", "l", "/", "1", "<U+3000>">>
URL_YT == <<"/", "y", "t", "1">>

UrlPool == {URL_SM1, URL_SM1_SP, URL_TWO, URL_SM1_Q, URL_ML, URL_YT}

NicoRaises == [raises |-> TRUE]

NicoHttp(code) == [raises |-> FALSE, status_code |-> code]

NicoMalformed == [raises |-> FALSE, status_code |-> 200, well_formed |-> FALSE]

NicoStatusFail == [raises |-> FALSE, status_code |-> 200, well_formed |-> TRUE,
                   status |-> <<"f", "a", "i", "l">>]

NicoOk(thumb) == [raises |-> FALSE, status_code |-> 200, well_formed |-> TRUE,
                  status |-> <<"o", "k">>, thumb |-> thumb]

NICO_FULL == NicoOk([first_retrieve |-> ISO1, title |-> T1, user_nickname |-> U1])

NICO_404 == NicoHttp(404)

NicoPool ==
    {NicoRaises, NICO_404, NicoMalformed, NicoStatusFail, NICO_FULL,
     NicoOk([first_retrieve |-> ISO1, title |-> T1]),
     NicoOk([first_retrieve |-> ISO1, title |-> T1, user_nickname |-> None]),
     NicoOk([first_retrieve |-> ISO_BAD, title |-> T1, user_nickname |-> U1]),
     NicoOk([first_retrieve |-> ISO1, user_nickname |-> U1])}

\* the entries of a collection (extract_flat)
ENTRY_SM1 == [id |-> SM1, title |-> T2, uploader |-> U2, upload_date |-> YMD1,
              url |-> URL_SM1]
ENTRY_NM3 == [id |-> NM3]
ENTRY_YT1 == [id |-> YT1, title |-> T1, channel |-> U1, upload_date |-> YMD_BAD]
ENTRY_URL == [url |-> URL_YT]
\* an entry whose id is no str
ENTRY_NAN == [id |-> NaN, title |-> T1, url |-> URL_YT]

EntryPool == {ENTRY_SM1, ENTRY_NM3, ENTRY_YT1, ENTRY_URL, ENTRY_NAN, EmptyDict}

SeqsUpTo(S, n) == UNION {[1..m -> S] : m \in 0..n}

\* a playlist of a foreign site, ids y1, y2, ...: half the quota, so that a
\* respondent who names it in both columns has exactly QUOTA votes
PlaylistEntry(k) == [id |-> <<"y">> \o Decimal(k), title |-> T1, uploader |-> U1,
                     upload_date |-> YMD1]

PLAYLIST == [entries |-> [k \in 1..(QUOTA \div 2) |-> PlaylistEntry(k)]]

YdlRaises == [raises |-> TRUE]

YdlInfo(info) == [raises |-> FALSE, info |-> info]

INFO_YT1 == [id |-> YT1, title |-> T1, uploader |-> U1, upload_date |-> YMD_WIDE]
INFO_SM1 == [id |-> SM1, title |-> T2, channel |-> U2]
INFO_NO_ID == [url |-> URL_YT]

InfoPool == {INFO_YT1, INFO_SM1, INFO_NO_ID}

YdlPool ==
    {YdlRaises} \cup {YdlInfo(info) : info \in InfoPool}
    \cup {YdlInfo([entries |-> es]) : es \in SeqsUpTo(EntryPool, MaxEntries)}
    \cup {YdlInfo(PLAYLIST)}

\* the entries the loop of lines 62-78 gets through: those before the first
\* one at which line 66 raises
EntriesRun(entries) ==
    LET stop == {j \in 1..Len(entries) : HasNicoPrefix(Get(entries[j], "id")).raises}
    IN  IF stop = {} THEN 1..Len(entries)
        ELSE 1..((CHOOSE j \in stop : \A x \in stop : j <= x) - 1)

\* the number of calls of provider A that resolving u can make when
\* extract_info does ydl: the lookup of line 45 and one per entry of line 67
Lookups(u, ydl) ==
    (IF NICO_ID_RE_findall(Strip(u)) # <<>> THEN 1 ELSE 0)
    + (IF ~ydl.raises /\ "entries" \in DOMAIN ydl.info
       THEN Cardinality({j \in EntriesRun(ydl.info.entries) :
                            IsNicoId(Get(ydl.info.entries[j], "id"))})
       ELSE 0)

\* what provider A answers during a run of process_data
NicoRun == {NICO_404, NICO_FULL}

\* the HTTP exchanges those calls meet: the first one any exchange of pool,
\* the later ones a failure or a full answer
ApiSeqs(pool, u, ydl) ==
    IF Lookups(u, ydl) = 0 THEN {<<>>}
    ELSE {<<r>> \o t : r \in pool, t \in [1..(Lookups(u, ydl) - 1) -> NicoRun]}

YdlRun == {YdlRaises, YdlInfo(INFO_NO_ID),
           YdlInfo([entries |-> <<ENTRY_SM1, ENTRY_YT1>>]), YdlInfo(PLAYLIST)}

\* the sheet: rows of ncols cells; columns 0 and 2 are not read
RESP_A == <<"A">>
\* a respondent cell that holds one space: read_csv keeps it as text
RESP_BLANK == <<" ">>

RespCells == {NaN, RESP_A, RESP_BLANK}

MylistCells == {NaN, URL_ML}

ExtCells == {NaN, URL_ML_SP, URL_TWO}

Widths == {1, 2, 4, 5}

\* the rows of a sheet of ncols columns; a sheet without the extra column
\* holds missing, named and blank respondent cells, a sheet with it missing
\* and named ones
RowsOf(ncols) ==
    {row \in [1..ncols -> RespCells \cup MylistCells \cup ExtCells] :
        /\ row[1] = NaN
        /\ ncols > 1 => row[2] \in RespCells
        /\ ncols > 4 => row[2] # RESP_BLANK
        /\ ncols > 2 => row[3] = NaN
        /\ ncols > 3 => row[4] \in MylistCells
        /\ ncols > 4 => row[5] \in ExtCells}

DataFrames ==
    UNION {{[ncols |-> n, rows |-> rows] : rows \in SeqsUpTo(RowsOf(n), MaxRows)} :
              n \in Widths}

(***************************************************************************)
(* The resolver on its own: one call of get_video_metadata                  *)
(***************************************************************************)
Idle ==
    /\ df = [ncols |-> 0, rows |-> <<>>]
    /\ i = 0
    /\ respondent = None
    /\ urls_to_process = <<>>
    /\ all_votes = <<>>
    /\ video_meta_cache = EmptyDict
    /\ respondent_counts = <<>>
    /\ ranking = <<>>
    /\ invalid_respondents = <<>>
    /\ resolver_calls = <<>>
    /\ handled = <<>>
    /\ vote_src = <<>>

InitResolve ==
    /\ Idle
    /\ pc = "call"
    /\ url \in UrlPool
    /\ results = ResNone
    /\ provider_calls = <<>>
    /\ extracted = NotExtracted

\* the call returns run.results after the provider calls run.calls
Return(run, ydl) ==
    /\ results' = run.results
    /\ provider_calls' = run.calls
    /\ extracted' = Extracted(run.calls, ydl)

Resolve ==
    /\ pc = "call"
    /\ \E ydl \in YdlPool : \E api \in ApiSeqs(NicoPool, url, ydl) :
          Return(get_video_metadata(url, api, ydl), ydl)
    /\ pc' = "returned"
    /\ UNCHANGED <<df, i, respondent, urls_to_process, all_votes, video_meta_cache,
                   respondent_counts, ranking, invalid_respondents, resolver_calls,
                   handled, vote_src, url>>

NextResolve == Resolve

SpecResolve == InitResolve /\ [][NextResolve]_vars

(***************************************************************************)
(* process_data, lines 103-186                                              *)
(***************************************************************************)
\* str(cell): a missing cell is the float NaN, and str(NaN) is 'nan'
PyStr(cell) == IF cell = NaN THEN <<"n", "a", "n">> ELSE cell

\* row.iloc[k]
Iloc(row, k) == row[k + 1]

\* a respondent label without the row index
RespondentOf_plain(row, idx) ==
    LET r == IF Len(row) > 1 THEN PyStr(Iloc(row, 1)) ELSE ANONYMOUS
    IN  IF r = <<"n", "a", "n">> THEN ANONYMOUS ELSE r

\* lines 119, 124
RespondentOf(row, idx) ==
    LET r == IF Len(row) > 1 THEN PyStr(Iloc(row, 1)) ELSE ANONYMOUS
    IN  IF r = <<"n", "a", "n">> THEN ANONYMOUS \o <<"_">> \o Decimal(idx) ELSE r

\* lines 120-121, 125-126: the URL cell of column k
UrlCell(row, k) ==
    LET u == IF Len(row) > k THEN PyStr(Iloc(row, k)) ELSE <<>>
    IN  IF u = <<"n", "a", "n">> THEN <<>> ELSE u

\* line 134
UrlsToProcess(row) ==
    LET cells == <<UrlCell(row, 3), UrlCell(row, 4)>>
        kept == SelectSeq(cells, LAMBDA u : Strip(u) # <<>>)
    IN  [k \in 1..Len(kept) |-> Strip(kept[k])]

\* respondent_counts is an insertion-ordered dict: a sequence of [name, count]
HasKey(counts, name) == \E k \in 1..Len(counts) : counts[k].name = name

\* lines 131-132
Register(counts, name) ==
    IF HasKey(counts, name) THEN counts
    ELSE Append(counts, [name |-> name, count |-> 0])

\* lines 153, 163, once per vote
AddCount(counts, name, n) ==
    [k \in 1..Len(counts) |->
        IF counts[k].name = name
        THEN [name |-> name, count |-> counts[k].count + n] ELSE counts[k]]

\* a cache that forgets the failures: "if video_meta_cache.get(url)"
CacheHit_truthy(cache, u) == u \in DOMAIN cache /\ ResTruthy(cache[u])

\* line 137
CacheHit(cache, u) == u \in DOMAIN cache

\* line 141
CachePut(cache, u, res) ==
    [x \in DOMAIN cache \cup {u} |-> IF x = u THEN res ELSE cache[x]]

\* lines 146-152
Vote(v, resp) ==
    [video_id |-> v.video_id, title |-> v.title, uploader |-> v.uploader,
     upload_date |-> v.upload_date, respondent |-> resp]

\* lines 159-162
DegradedVote(n_id, resp) ==
    [video_id |-> n_id, title |-> INFO_UNAVAILABLE, uploader |-> UNAVAILABLE,
     upload_date |-> UNAVAILABLE, respondent |-> resp]

\* a fallback that keeps the first identifier of the URL only
VotesFor_first(res, u, resp) ==
    IF ResTruthy(res)
    THEN [k \in 1..Len(res.list) |-> Vote(res.list[k], resp)]
    ELSE LET nico_ids == NICO_ID_RE_findall(u)
         IN  IF nico_ids = <<>> THEN <<>>
             ELSE <<DegradedVote(nico_ids[1], resp)>>

\* lines 144-163: the votes one URL of one row adds
VotesFor(res, u, resp) ==
    IF ResTruthy(res)
    THEN [k \in 1..Len(res.list) |-> Vote(res.list[k], resp)]
    ELSE LET nico_ids == NICO_ID_RE_findall(u)
         IN  [k \in 1..Len(nico_ids) |-> DegradedVote(nico_ids[k], resp)]

TotalRows == Len(df.rows)

\* lines 113-114
ReturnNoRows ==
    /\ pc = "row" /\ i = 0 /\ TotalRows = 0
    /\ pc' = "return_none"
    /\ invalid_respondents' = <<>>
    /\ UNCHANGED <<df, i, respondent, urls_to_process, all_votes, video_meta_cache,
                   respondent_counts, ranking, resolver_calls, provider_calls, extracted,
                   handled, vote_src, url, results>>

\* lines 116-134: the head of the loop body for row i
ReadRow ==
    /\ pc = "row" /\ i < TotalRows
    /\ LET row == df.rows[i + 1]
       IN  /\ respondent' = RespondentOf(row, i)
           /\ respondent_counts' = Register(respondent_counts, RespondentOf(row, i))
           /\ urls_to_process' = UrlsToProcess(row)
    /\ pc' = "url"
    /\ UNCHANGED <<df, i, all_votes, video_meta_cache, ranking, invalid_respondents,
                   resolver_calls, provider_calls, extracted, handled, vote_src, url, results>>

\* history: the position in the row's list of the URL being handled
UrlPos == Len(UrlsToProcess(df.rows[i + 1])) - Len(urls_to_process) + 1

\* what lines 144-163 do with the result res for the next URL
EmitVotes(votes) ==
    /\ all_votes' = all_votes \o votes
    /\ handled' = Append(handled, [row |-> i, pos |-> UrlPos,
                                    url |-> Head(urls_to_process)])
    /\ vote_src' = vote_src \o [k \in 1..Len(votes) |->
                                    [occ |-> Len(handled) + 1, row |-> i, k |-> k]]
    /\ respondent_counts' = AddCount(respondent_counts, respondent, Len(votes))
    /\ urls_to_process' = Tail(urls_to_process)

Emit(res) == EmitVotes(VotesFor(res, Head(urls_to_process), respondent))

\* lines 137-138 and 144-163: the URL is in the cache
ProcessCachedUrl ==
    /\ pc = "url" /\ urls_to_process # <<>>
    /\ CacheHit(video_meta_cache, Head(urls_to_process))
    /\ Emit(video_meta_cache[Head(urls_to_process)])
    /\ UNCHANGED <<df, pc, i, respondent, video_meta_cache, ranking,
                   invalid_respondents, resolver_calls, provider_calls, extracted, url, results>>

\* lines 140-141 and 144-163 for the resolution run of the next URL
ResolveAndEmit(run, ydl) ==
    /\ video_meta_cache' =
           CachePut(video_meta_cache, Head(urls_to_process), run.results)
    /\ provider_calls' = run.calls
    /\ extracted' = Extracted(run.calls, ydl)
    /\ Emit(run.results)

\* lines 139-142 and 144-163: the URL is resolved and cached
ProcessNewUrl ==
    /\ pc = "url" /\ urls_to_process # <<>>
    /\ ~CacheHit(video_meta_cache, Head(urls_to_process))
    /\ \E ydl \in YdlRun : \E api \in ApiSeqs(NicoRun, Head(urls_to_process), ydl) :
          ResolveAndEmit(get_video_metadata(Head(urls_to_process), api, ydl), ydl)
    /\ resolver_calls' = Append(resolver_calls, Head(urls_to_process))
    /\ UNCHANGED <<df, pc, i, respondent, ranking, invalid_respondents, url, results>>

\* line 165: the row is done
EndRow ==
    /\ pc = "url" /\ urls_to_process = <<>>
    /\ i' = i + 1
    /\ pc' = "row"
    /\ UNCHANGED <<df, respondent, urls_to_process, all_votes, video_meta_cache,
                   respondent_counts, ranking, invalid_respondents, resolver_calls,
                   provider_calls, extracted, handled, vote_src, url, results>>

\* lines 167-168
ReturnNoVotes ==
    /\ pc = "row" /\ TotalRows > 0 /\ i = TotalRows
    /\ all_votes = <<>>
    /\ pc' = "return_none"
    /\ invalid_respondents' = <<>>
    /\ UNCHANGED <<df, i, respondent, urls_to_process, all_votes, video_meta_cache,
                   respondent_counts, ranking, resolver_calls, provider_calls, extracted,
                   handled, vote_src, url, results>>

(***************************************************************************)
(* The aggregation, lines 171-184                                           *)
(***************************************************************************)
\* sorted(list(set(x)))
RECURSIVE SortedStrs(_)
SortedStrs(S) ==
    IF S = {} THEN <<>>
    ELSE LET m == CHOOSE x \in S : \A y \in S \ {x} : StrLess(x, y)
         IN  <<m>> \o SortedStrs(S \ {m})

\* groupby('video_id') keeps no group for a null key (dropna)
GroupKeys(votes) == {votes[k].video_id : k \in 1..Len(votes)} \ {None, NaN}

\* the positions of the votes of one group, in order
GroupOf(votes, key) == {k \in 1..Len(votes) : votes[k].video_id = key}

\* 'first': the first value of the column in the group that is not null
\* (None and NaN are null); a group with none gets the column's null: NaN
\* when the column of the frame of line 171 is a float column, one that holds
\* nulls only and at least one NaN (its None become NaN), and None otherwise
GroupFirst(votes, key, col) ==
    LET present == {k \in GroupOf(votes, key) : votes[k][col] \notin {None, NaN}}
        float == /\ \A k \in 1..Len(votes) : votes[k][col] \in {None, NaN}
                 /\ \E k \in 1..Len(votes) : votes[k][col] = NaN
    IN  IF present = {}
        THEN IF float THEN NaN ELSE None
        ELSE votes[CHOOSE k \in present : \A j \in present : k <= j][col]

\* lines 174-181: one row of the grouped frame
GroupRow(votes, key) ==
    LET names == SortedStrs({votes[k].respondent : k \in GroupOf(votes, key)})
    IN  [video_id |-> key,
         title |-> GroupFirst(votes, key, "title"),
         upload_date |-> GroupFirst(votes, key, "upload_date"),
         uploader |-> GroupFirst(votes, key, "uploader"),
         respondent |-> names,
         count |-> Len(names)]

\* line 182: by=['count', 'video_id'], ascending=[False, True]
RowBefore(a, b) ==
    \/ a.count > b.count
    \/ a.count = b.count /\ StrLess(a.video_id, b.video_id)

RECURSIVE SortedRows(_)
SortedRows(S) ==
    IF S = {} THEN <<>>
    ELSE LET m == CHOOSE x \in S : \A y \in S \ {x} : RowBefore(x, y)
         IN  <<m>> \o SortedRows(S \ {m})

\* a competition rank that does not share ranks among ties
RankMin_dense(rows, k) == k

\* line 184: rank(ascending=False, method='min')
RankMin(rows, k) ==
    1 + Cardinality({j \in 1..Len(rows) : rows[j].count > rows[k].count})

\* lines 183-184
WithRanks(rows) ==
    [k \in 1..Len(rows) |->
        [video_id |-> rows[k].video_id, title |-> rows[k].title,
         upload_date |-> rows[k].upload_date, uploader |-> rows[k].uploader,
         respondent |-> rows[k].respondent, count |-> rows[k].count,
         rank_dense |-> k, rank_competition |-> RankMin(rows, k)]]

\* lines 171-184
Ranking(votes) ==
    WithRanks(SortedRows({GroupRow(votes, key) : key \in GroupKeys(votes)}))

\* a quota check that lists only the respondents under the quota
InvalidRespondents_under(counts) ==
    LET bad == SelectSeq(counts, LAMBDA c : c.count < QUOTA)
    IN  [k \in 1..Len(bad) |-> bad[k].name]

\* line 172
InvalidRespondents(counts) ==
    LET bad == SelectSeq(counts, LAMBDA c : c.count # QUOTA)
    IN  [k \in 1..Len(bad) |-> bad[k].name]

\* lines 171-186
Aggregate ==
    /\ pc = "row" /\ TotalRows > 0 /\ i = TotalRows
    /\ all_votes # <<>>
    /\ ranking' = Ranking(all_votes)
    /\ invalid_respondents' = InvalidRespondents(respondent_counts)
    /\ pc' = "return_ranking"
    /\ UNCHANGED <<df, i, respondent, urls_to_process, all_votes, video_meta_cache,
                   respondent_counts, resolver_calls, provider_calls, extracted, handled, vote_src,
                   url, results>>

Init ==
    /\ df \in DataFrames
    /\ pc = "row"
    /\ i = 0
    /\ respondent = None
    /\ urls_to_process = <<>>
    /\ all_votes = <<>>
    /\ video_meta_cache = EmptyDict
    /\ respondent_counts = <<>>
    /\ ranking = <<>>
    /\ invalid_respondents = <<>>
    /\ resolver_calls = <<>>
    /\ provider_calls = <<>>
    /\ extracted = NotExtracted
    /\ handled = <<>>
    /\ vote_src = <<>>
    /\ url = None
    /\ results = ResNone

Next ==
    \/ ReturnNoRows
    \/ ReadRow
    \/ ProcessCachedUrl
    \/ ProcessNewUrl
    \/ EndRow
    \/ ReturnNoVotes
    \/ Aggregate

Spec == Init /\ [][Next]_vars

(***************************************************************************)
(* Properties of the resolver (SpecResolve)                                 *)
(***************************************************************************)
Returned == pc = "returned"

\* the positions of the calls of one provider in the history
CallsTo(provider) == {k \in 1..Len(provider_calls) : provider_calls[k].provider = provider}

\* the identifiers the URL text carries
IdsOfUrl == NICO_ID_RE_findall(Strip(url))

\* the lookup of the URL's first identifier was made first and gave data
FirstLookupSucceeded ==
    /\ IdsOfUrl # <<>>
    /\ provider_calls # <<>>
    /\ provider_calls[1].provider = "nico"
    /\ provider_calls[1].arg = IdsOfUrl[1]
    /\ provider_calls[1].ok

\* C2 as stated: while one URL is resolved, each provider is attempted at
\* most once.
C2_EachProviderOnce ==
    Returned => /\ Cardinality(CallsTo("nico")) <= 1
                /\ Cardinality(CallsTo("ydl")) <= 1

\* the ids of the entries of the collection extract_info returned for which
\* line 66 holds, in order (none when it returned no collection)
NicoEntryIds ==
    IF "info" \in DOMAIN extracted /\ "entries" \in DOMAIN extracted.info
    THEN LET es == SelectSeq(extracted.info.entries,
                             LAMBDA en : IsNicoId(Get(en, "id")))
         IN  [k \in 1..Len(es) |-> es[k].id]
    ELSE <<>>

\* the arguments of the platform lookups made after call y, in order
LookupsAfter(y) ==
    [k \in 1..(Len(provider_calls) - y) |-> provider_calls[y + k].arg]

\* C2 amended: the general-purpose provider is attempted at most once per
\* URL; the platform lookup is attempted at most once before it (for the
\* first identifier of the URL text) and, after it, at most once per entry
\* of the collection it returned, in the order of the entries and each time
\* for that entry's own id.
C2_BoundedAttempts ==
    Returned =>
        /\ Cardinality(CallsTo("ydl")) <= 1
        /\ \A k \in CallsTo("ydl") : provider_calls[k].arg = Strip(url)
        /\ \A k \in CallsTo("nico") : \A y \in CallsTo("ydl") :
              k < y => k = 1 /\ IdsOfUrl # <<>> /\ provider_calls[k].arg = IdsOfUrl[1]
        /\ CallsTo("ydl") = {} => Cardinality(CallsTo("nico")) <= 1
        /\ \A y \in CallsTo("ydl") :
              /\ Len(LookupsAfter(y)) <= Len(NicoEntryIds)
              /\ LookupsAfter(y) = SubSeq(NicoEntryIds, 1, Len(LookupsAfter(y)))

\* a failed lookup of the URL's identifier is followed by a collection whose
\* entry is looked up again
C2_Witness ==
    /\ Returned
    /\ Cardinality(CallsTo("nico")) >= 2
    /\ provider_calls[1].provider = "nico" /\ ~provider_calls[1].ok
    /\ \E k \in CallsTo("nico") : k > 1 /\ provider_calls[k].arg = provider_calls[1].arg

\* C3: when the URL text carries an identifier and the lookup of the first
\* one succeeds, the result is exactly one video, that identifier's, and the
\* general-purpose provider is not called; it is called only when no
\* identifier is recognized or that lookup failed.
C3_ShortCircuit ==
    Returned =>
        /\ FirstLookupSucceeded =>
              /\ ~results.is_none
              /\ Len(results.list) = 1
              /\ results.list[1].video_id = IdsOfUrl[1]
              /\ CallsTo("ydl") = {}
              /\ Len(provider_calls) = 1
        /\ IdsOfUrl # <<>> =>
              /\ provider_calls[1].provider = "nico"
              /\ provider_calls[1].arg = IdsOfUrl[1]
        /\ CallsTo("ydl") # {} =>
              \/ IdsOfUrl = <<>>
              \/ provider_calls[1].provider = "nico" /\ ~provider_calls[1].ok

\* a URL with two identifiers whose first lookup succeeded: one video, one call
C3_Witness ==
    /\ Returned
    /\ Len(IdsOfUrl) >= 2
    /\ FirstLookupSucceeded
    /\ Len(results.list) = 1

\* a str that is neither null nor empty
NonEmptyStr(x) == IsStr(x) /\ x # <<>>

\* C7 as stated: every video of a successful resolution has video_id, title,
\* uploader and upload_date set to non-null, non-empty strings.
C7_FieldsNonEmpty ==
    Returned /\ ~results.is_none =>
        \A k \in 1..Len(results.list) :
            /\ NonEmptyStr(results.list[k].video_id)
            /\ NonEmptyStr(results.list[k].title)
            /\ NonEmptyStr(results.list[k].uploader)
            /\ NonEmptyStr(results.list[k].upload_date)

(***************************************************************************)
(* Properties of process_data (Spec)                                        *)
(***************************************************************************)
Done == pc \in {"return_none", "return_ranking"}

Ranked == pc = "return_ranking"

RowIds == 0..(TotalRows - 1)

\* the URLs of row r, as line 134 lists them
UrlsOfRow(r) == UrlsToProcess(df.rows[r + 1])

UrlAt(r, p) == UrlsOfRow(r)[p]

\* the occurrences in sheet order, as [row, pos, url]
RECURSIVE OccurrencesFrom(_)
OccurrencesFrom(r) ==
    IF r >= TotalRows THEN <<>>
    ELSE [p \in 1..Len(UrlsOfRow(r)) |-> [row |-> r, pos |-> p, url |-> UrlAt(r, p)]]
         \o OccurrencesFrom(r + 1)

HandledIds == 1..Len(handled)

VoteIds == 1..Len(all_votes)

\* the votes of the h-th handled occurrence, in order
VotesSeq(h) ==
    LET js == {j \in VoteIds : vote_src[j].occ = h}
    IN  [k \in 1..Cardinality(js) |-> all_votes[CHOOSE j \in js : vote_src[j].k = k]]

Meta(v) == <<v.video_id, v.title, v.uploader, v.upload_date>>

MetaSeq(vs) == [k \in 1..Len(vs) |-> Meta(vs[k])]

\* the first handled occurrence of the URL of the h-th
FirstOf(h) == CHOOSE f \in 1..h : /\ handled[f].url = handled[h].url
                                  /\ \A g \in 1..(f - 1) : handled[g].url # handled[h].url

TimesResolved(u) ==
    Cardinality({k \in 1..Len(resolver_calls) : resolver_calls[k] = u})

\* C1: a URL that occurs in the handled rows was passed to the resolver
\* exactly once, also when that call ended unresolved; every occurrence of
\* it gives the same votes (id, title, uploader, date) as its first
\* occurrence, those of the cached result.  When process_data returns, every
\* URL occurrence of the sheet has been handled.
C1_ResolvedOnce ==
    /\ \A k \in 1..Len(resolver_calls) : TimesResolved(resolver_calls[k]) = 1
    /\ \A h \in HandledIds :
          LET u == handled[h].url
              metas == MetaSeq(VotesSeq(h))
          IN  /\ TimesResolved(u) = 1
              /\ u \in DOMAIN video_meta_cache
              /\ ResTruthy(video_meta_cache[u]) =>
                     metas = MetaSeq(video_meta_cache[u].list)
              /\ metas = MetaSeq(VotesSeq(FirstOf(h)))
    /\ Done => handled = OccurrencesFrom(0)

\* a URL that was not resolved occurs in two rows and gave votes both times
C1_Witness ==
    /\ Done
    /\ \E h1 \in HandledIds : \E h2 \in HandledIds :
          /\ handled[h1].row # handled[h2].row
          /\ handled[h1].url = handled[h2].url
          /\ video_meta_cache[handled[h1].url].is_none
          /\ VotesSeq(h1) # <<>> /\ VotesSeq(h2) # <<>>

\* C4: an occurrence of a URL whose resolution is unresolved gives one vote
\* per identifier found in the URL text, in order, with that identifier as
\* video_id, the sentinel strings as title, uploader and date and the row's
\* respondent; with no identifier it gives no vote, and the loop goes on to
\* the end of the sheet.
C4_DegradedVotes ==
    /\ \A h \in HandledIds :
          video_meta_cache[handled[h].url].is_none =>
              LET ids == NICO_ID_RE_findall(handled[h].url)
                  vs == VotesSeq(h)
              IN  /\ Len(vs) = Len(ids)
                  /\ \A k \in 1..Len(ids) :
                        /\ vs[k].video_id = ids[k]
                        /\ vs[k].title = INFO_UNAVAILABLE
                        /\ vs[k].uploader = UNAVAILABLE
                        /\ vs[k].upload_date = UNAVAILABLE
                        /\ vs[k].respondent =
                               RespondentOf(df.rows[handled[h].row + 1], handled[h].row)
    /\ Done => handled = OccurrencesFrom(0)

\* one row holds a URL without identifier that was not resolved, and after
\* it a URL with two identifiers that was not resolved either
C4_Witness ==
    /\ Done
    /\ \E h \in HandledIds :
          /\ h < Len(handled)
          /\ handled[h].row = handled[h + 1].row
          /\ video_meta_cache[handled[h].url].is_none
          /\ video_meta_cache[handled[h + 1].url].is_none
          /\ VotesSeq(h) = <<>>
          /\ Len(VotesSeq(h + 1)) = 2

RankIds == 1..Len(ranking)

Elems(seq) == {seq[k] : k \in 1..Len(seq)}

\* C5 as stated: the ranking has exactly one row for every video_id a vote
\* carries and no other row; the row's respondents are the distinct
\* respondents with a vote for that id and count is their number.
C5_OneRowPerVideo ==
    Ranked =>
        /\ \A j \in VoteIds :
              Cardinality({k \in RankIds : ranking[k].video_id = all_votes[j].video_id}) = 1
        /\ \A k \in RankIds :
              /\ \E j \in VoteIds : all_votes[j].video_id = ranking[k].video_id
              /\ Elems(ranking[k].respondent) =
                    {all_votes[j].respondent :
                        j \in {v \in VoteIds : all_votes[v].video_id = ranking[k].video_id}}
              /\ Len(ranking[k].respondent) = Cardinality(Elems(ranking[k].respondent))
              /\ ranking[k].count = Cardinality(Elems(ranking[k].respondent))

\* C6: the rows are ordered by count descending, then video_id ascending;
\* rank_dense is the position 1..N; rank_competition is the rank_dense of the
\* first row with the same count.
C6_RankOrder ==
    Ranked =>
        /\ \A k \in RankIds : k < Len(ranking) =>
              \/ ranking[k].count > ranking[k + 1].count
              \/ /\ ranking[k].count = ranking[k + 1].count
                 /\ StrLess(ranking[k].video_id, ranking[k + 1].video_id)
        /\ \A k \in RankIds : ranking[k].rank_dense = k
        /\ \A k \in RankIds :
              /\ ranking[k].rank_competition \in RankIds
              /\ ranking[ranking[k].rank_competition].count = ranking[k].count
              /\ \A j \in RankIds : ranking[j].count = ranking[k].count
                                      => ranking[k].rank_competition <= j

\* two videos tie ahead of a third: dense 1,2,3 and competition 1,1,3
C6_Witness ==
    /\ Ranked
    /\ Len(ranking) = 3
    /\ ranking[1].count = ranking[2].count
    /\ ranking[2].count > ranking[3].count
    /\ ranking[1].rank_competition = 1
    /\ ranking[2].rank_competition = 1
    /\ ranking[3].rank_competition = 3

\* the respondent identities of the sheet's rows
Names == {RespondentOf(df.rows[r + 1], r) : r \in RowIds}

VotesBy(name) == Cardinality({j \in VoteIds : all_votes[j].respondent = name})

OffQuota == {n \in Names : VotesBy(n) # QUOTA}

\* C8 as stated: whenever process_data returns, the list it returns holds
\* exactly the respondents whose number of votes is not the quota.
C8_QuotaList == Done => Elems(invalid_respondents) = OffQuota

\* C8 amended: when process_data returns a ranking (at least one vote was
\* emitted), the list holds exactly the respondents whose number of votes is
\* not the quota; when no vote was emitted it returns no ranking and an
\* empty list.
C8_QuotaListWhenRanked ==
    /\ Ranked => /\ Elems(invalid_respondents) = OffQuota
                 /\ Len(invalid_respondents) = Cardinality(OffQuota)
    /\ pc = "return_none" => all_votes = <<>> /\ invalid_respondents = <<>>

\* one respondent has exactly the quota and is not listed, another has no
\* vote and is listed
C8_Witness ==
    /\ Ranked
    /\ \E n \in Names : VotesBy(n) = QUOTA /\ n \notin Elems(invalid_respondents)
    /\ \E n \in Names : VotesBy(n) = 0 /\ n \in Elems(invalid_respondents)

\* the respondent field of row r is absent (no such column) or missing (an
\* empty cell, which read_csv gives as NaN)
IsAnonymousRow(r) == df.ncols <= 1 \/ Iloc(df.rows[r + 1], 1) = NaN

\* the respondent cell of row r holds whitespace only
IsBlankRow(r) ==
    /\ df.ncols > 1
    /\ Iloc(df.rows[r + 1], 1) # NaN
    /\ Strip(Iloc(df.rows[r + 1], 1)) = <<>>

\* the rows among R that voted for the video of ranking row k
VotersAmong(R, k) ==
    {vote_src[j].row :
        j \in {v \in VoteIds : /\ vote_src[v].row \in R
                              /\ all_votes[v].video_id = ranking[k].video_id}}

\* C9 as stated: votes from two different rows whose respondent field is
\* absent or blank carry different respondents, and a ranking row counts each
\* such row that voted for its video.
C9_AbsentOrBlankDistinct ==
    /\ \A j1 \in VoteIds : \A j2 \in VoteIds :
          /\ vote_src[j1].row # vote_src[j2].row
          /\ IsAnonymousRow(vote_src[j1].row) \/ IsBlankRow(vote_src[j1].row)
          /\ IsAnonymousRow(vote_src[j2].row) \/ IsBlankRow(vote_src[j2].row)
          => all_votes[j1].respondent # all_votes[j2].respondent
    /\ Ranked =>
          \A k \in RankIds :
              ranking[k].count >=
                  Cardinality(VotersAmong({r \in RowIds : IsAnonymousRow(r) \/ IsBlankRow(r)}, k))

\* C9: votes from two different rows whose respondent field is absent or
\* missing carry different respondents, and a ranking row counts each such row
\* that voted for its video; a vote from a row whose respondent cell holds
\* whitespace only carries the cell's text as respondent, so that two such
\* rows with the same text share one respondent.
C9_AnonymousDistinct ==
    /\ \A j1 \in VoteIds : \A j2 \in VoteIds :
          /\ vote_src[j1].row # vote_src[j2].row
          /\ IsAnonymousRow(vote_src[j1].row)
          /\ IsAnonymousRow(vote_src[j2].row)
          => all_votes[j1].respondent # all_votes[j2].respondent
    /\ \A j \in VoteIds :
          IsBlankRow(vote_src[j].row)
          => all_votes[j].respondent = Iloc(df.rows[vote_src[j].row + 1], 1)
    /\ Ranked =>
          \A k \in RankIds :
              ranking[k].count >=
                  Cardinality(VotersAmong({r \in RowIds : IsAnonymousRow(r)}, k))

\* two rows without respondent voted for one video, which has count 2
C9_Witness ==
    /\ Ranked
    /\ TotalRows = 2
    /\ IsAnonymousRow(0) /\ IsAnonymousRow(1)
    /\ \E k \in RankIds :
          /\ ranking[k].count = 2
          /\ \E j1 \in VoteIds : \E j2 \in VoteIds :
                /\ vote_src[j1].row = 0 /\ vote_src[j2].row = 1
                /\ all_votes[j1].video_id = ranking[k].video_id
                /\ all_votes[j2].video_id = ranking[k].video_id

\* C10 as stated: all votes with one video_id carry the same title, uploader
\* and upload_date.
C10_MetadataConsistent ==
    \A j1 \in VoteIds : \A j2 \in VoteIds :
        all_votes[j1].video_id = all_votes[j2].video_id
        => Meta(all_votes[j1]) = Meta(all_votes[j2])

====
